---- MODULE Spec2Model ----
(***************************************************************************)
(* Model of the session lifecycle manager of vivarium                      *)
(* (src/src/service/session-manager.ts, wired in src/src/index.ts).        *)
(*                                                                         *)
(* The manager runs on a single-threaded event loop: the code between two  *)
(* `await`s runs atomically, and every `await` is a point where any other  *)
(* pending flow may run.  Each action below is one such atomic stretch.    *)
(* The environment (PyodidePythonEnvironment) is an external capability:   *)
(* init, terminate and cleanup each settle later, with success or failure. *)
(***************************************************************************)
EXTENDS Integers, Sequences, FiniteSets, TLC

(* ---------------------------- bounds ---------------------------------- *)
\* number of concurrently running flows (request handlers / timer callbacks)
NumTasks == 2
\* the clock runs 0..MaxTime, in minutes
MaxTime == 1
\* number of environments ever constructed
MaxEnvs == 3
\* the same, in the specification the liveness properties are checked under
LiveMaxEnvs == 2

\* session ids the callers use
Ids == {"a", "b"}
Tasks == 1..NumTasks

(* ------------------------ program constants --------------------------- *)
\* new SessionManager(1): the idle timeout in minutes
sessionTimeoutMinutes == 1
\* 60 * 1000 ms: the clock unit of the model is one minute, which is also
\* cleanupIntervalMs, the period of the timer
MinuteUnits == 1
sessionTimeout == sessionTimeoutMinutes * MinuteUnits

VARIABLES
    sessions,         \* the Map id -> Session, in insertion order
    cleanupInterval,  \* TRUE while the setInterval timer is armed
    tickDue,          \* TRUE when the armed timer's period has elapsed
    now,              \* Date.now()
    envs,             \* every environment constructed so far
    task,             \* the flows: operation, position and locals
    shutdownAt        \* history: the number of environments constructed when
                      \* shutdown() was called, -1 before the call

vars == <<sessions, cleanupInterval, tickDue, now, envs, task, shutdownAt>>

(* --------------------------- the Map ---------------------------------- *)
NoSession == [id |-> "", environment |-> 0, createdAt |-> 0, lastAccessedAt |-> 0]

Index(S, id) ==
    IF \E n \in 1..Len(S) : S[n].id = id
    THEN CHOOSE n \in 1..Len(S) : S[n].id = id
    ELSE 0

MapHas(S, id) == Index(S, id) # 0

MapGet(S, id) == IF MapHas(S, id) THEN S[Index(S, id)] ELSE NoSession

\* Map.set keeps the position of an existing key and appends a new one
MapSet(S, id, s) ==
    IF MapHas(S, id) THEN [S EXCEPT ![Index(S, id)] = s] ELSE Append(S, s)

MapDelete(S, id) == SelectSeq(S, LAMBDA s : s.id # id)

MapKeys(S) == [n \in 1..Len(S) |-> S[n].id]

\* the environments of the registered sessions
Registered(S) == {S[n].environment : n \in 1..Len(S)}

(* ------------------------- environments ------------------------------- *)
\* An environment is named by its position in envs.  init is the state of its
\* init() call; terminate and cleanup count the calls of these methods.
NewEnv == [init |-> "pending", terminate |-> 0, cleanup |-> 0]

\* the record of an environment nothing refers to any more
Forgotten == [init |-> "gone", terminate |-> 0, cleanup |-> 0]

(* --------------------------- results ---------------------------------- *)
NoResult == [kind |-> "none", val |-> 0]
SessionResult(e) == [kind |-> "session", val |-> e]
BoolResult(b) == [kind |-> "bool", val |-> IF b THEN 1 ELSE 0]
CountResult(n) == [kind |-> "count", val |-> n]
VoidResult == [kind |-> "void", val |-> 0]
InfoResult(l) == [kind |-> "info", val |-> l]
ErrorResult == [kind |-> "error", val |-> 0]

(* ---------------------------- flows ----------------------------------- *)
\* op: the public operation the flow runs; pc: where it is suspended;
\* sessionId, session: the locals of createSession / removeSession (session
\* is the environment of the Session object held);
\* ids, k: the list a sweep or shutdown walks and the position in it;
\* result: what the caller receives.
\* History of the flow: td, the teardown outcome of its last removal; failed,
\* whether a teardown of the pass failed; scan, the sessions (by environment)
\* the pass was due to remove when it scanned the registry; removed, the
\* number of removeSession calls of the pass that returned true.
IdleTask ==
    [op |-> "idle", pc |-> "idle", sessionId |-> "", session |-> 0,
     ids |-> <<>>, k |-> 0, result |-> NoResult,
     td |-> "none", failed |-> FALSE, scan |-> {}, removed |-> 0]

\* the environments a flow still refers to
Held(t) == (IF t.session # 0 THEN {t.session} ELSE {}) \cup t.scan

\* The history of an environment is kept while the registry or a flow refers
\* to it, and for as long as it is initialized and never terminated; the
\* record of any other environment is dropped.
Forget(E, S, T) ==
    [e \in 1..Len(E) |->
        IF /\ e \notin Registered(S)
           /\ \A p \in Tasks : e \notin Held(T[p])
           /\ (E[e].init # "ok" \/ E[e].terminate > 0)
        THEN Forgotten
        ELSE E[e]]

\* flows are interchangeable: a new one takes the first free slot
IsFree(p) ==
    /\ task[p].pc = "idle"
    /\ \A q \in Tasks : q < p => task[q].pc # "idle"

Init ==
    /\ sessions = <<>>
    /\ cleanupInterval = TRUE
    /\ tickDue = FALSE
    /\ now = 0
    /\ envs = <<>>
    /\ task = [p \in Tasks |-> IdleTask]
    /\ shutdownAt = -1

(* ------------------------- getSession --------------------------------- *)
\* a plausible slip: the lookup leaves the timestamp alone
getSessionNoRefresh(S, id, t) == S

\* a plausible slip: the lookup stamps both timestamps
getSessionStampsCreatedAt(S, id, t) ==
    IF MapHas(S, id)
    THEN MapSet(S, id, [MapGet(S, id) EXCEPT !.lastAccessedAt = t, !.createdAt = t])
    ELSE S

\* the registry after getSession(id) at time t
getSession(S, id, t) ==
    IF MapHas(S, id)
    THEN MapSet(S, id, [MapGet(S, id) EXCEPT !.lastAccessedAt = t])
    ELSE S

GetSession(id) ==
    /\ sessions' = getSession(sessions, id, now)
    /\ UNCHANGED <<cleanupInterval, tickDue, now, envs, task, shutdownAt>>

(* ------------------------ getOrCreateSession -------------------------- *)
\* the Session object createSession builds once init() has resolved
NewSession(id, e, t) ==
    [id |-> id, environment |-> e, createdAt |-> t, lastAccessedAt |-> t]

\* createSession after `await environment.init()` resolved: build and insert
createSessionInsert(S, id, e, t) == MapSet(S, id, NewSession(id, e, t))

\* a plausible slip: the session is registered although init() rejected
createSessionRejectedInserts(S, id, e, t) == MapSet(S, id, NewSession(id, e, t))

\* createSession after `await environment.init()` rejected: the error leaves
\* the function before sessions.set is reached
createSessionRejected(S, id, e, t) == S

\* getOrCreateSession up to its first await: the hit path returns the
\* refreshed session; the miss path runs createSession up to `await init()`
GetOrCreateSession(p, id) ==
    /\ IsFree(p)
    /\ IF MapHas(sessions, id)
       THEN /\ sessions' = getSession(sessions, id, now)
            /\ task' = [task EXCEPT ![p] =
                   [IdleTask EXCEPT !.op = "getOrCreate", !.pc = "done",
                                    !.sessionId = id,
                                    !.session = MapGet(sessions, id).environment,
                                    !.result = SessionResult(MapGet(sessions, id).environment)]]
            /\ envs' = envs
       ELSE /\ Len(envs) < MaxEnvs
            /\ envs' = Append(envs, NewEnv)
            /\ task' = [task EXCEPT ![p] =
                   [IdleTask EXCEPT !.op = "getOrCreate", !.pc = "await_init",
                                    !.sessionId = id, !.session = Len(envs) + 1]]
            /\ sessions' = sessions
    /\ UNCHANGED <<cleanupInterval, tickDue, now, shutdownAt>>

\* the rest of createSession once init() settled
InitSettle(p, ok) ==
    LET t == task[p] IN
    /\ t.pc = "await_init"
    /\ IF ok
       THEN /\ sessions' = createSessionInsert(sessions, t.sessionId, t.session, now)
            /\ task' = [task EXCEPT ![p] =
                   [t EXCEPT !.pc = "done", !.result = SessionResult(t.session)]]
       ELSE /\ sessions' = createSessionRejected(sessions, t.sessionId, t.session, now)
            /\ task' = [task EXCEPT ![p] =
                   [t EXCEPT !.pc = "done", !.result = ErrorResult]]
    /\ envs' = Forget([envs EXCEPT ![t.session].init = IF ok THEN "ok" ELSE "failed"],
                      sessions', task')
    /\ UNCHANGED <<cleanupInterval, tickDue, now, shutdownAt>>

(* --------------------------- removeSession ---------------------------- *)
\* a plausible slip: a missing session is reported as removed
removeSessionNotFoundTrue == BoolResult(TRUE)

\* `if (!session) return false`
removeSessionNotFound == BoolResult(FALSE)

\* a plausible slip: the catch block rethrows, so the error leaves
\* removeSession before sessions.delete
removeSessionCatchRethrows(S, id) == [sessions |-> S, threw |-> TRUE]

\* terminate() or cleanup() rejected: the catch block logs, and control
\* falls through to sessions.delete and `return true`
removeSessionCatch(S, id) == [sessions |-> MapDelete(S, id), threw |-> FALSE]

\* both awaits of the try block resolved: sessions.delete and `return true`
removeSessionDelete(S, id) == MapDelete(S, id)

\* what a finished sweep or shutdown keeps: its result and its history
Finished(t, res) ==
    [IdleTask EXCEPT !.op = t.op, !.pc = "done", !.result = res,
                     !.failed = t.failed, !.scan = t.scan, !.removed = t.removed]

\* the flow t once its removeSession call has returned `removed`: a
\* removeSession request is answered; a sweep or shutdown goes on to the next
\* id of its list after the await, or returns after the last one
AfterRemoval(t, removed) ==
    LET n == t.removed + (IF removed THEN 1 ELSE 0) IN
    IF t.op = "remove"
    THEN [t EXCEPT !.pc = "done",
                   !.result = IF removed THEN BoolResult(TRUE) ELSE removeSessionNotFound]
    ELSE IF t.k < Len(t.ids)
    THEN [t EXCEPT !.pc = "loop", !.k = @ + 1, !.sessionId = "", !.session = 0,
                   !.td = "none", !.removed = n]
    ELSE Finished([t EXCEPT !.removed = n],
                  IF t.op = "sweep" THEN CountResult(Len(t.ids)) ELSE VoidResult)

\* an error thrown out of removeSession leaves the calling flow as well
AfterThrow(t) ==
    IF t.op = "remove"
    THEN [t EXCEPT !.pc = "done", !.result = ErrorResult]
    ELSE Finished(t, ErrorResult)

\* removeSession(id) called by the flow t up to its first await: look the
\* session up, return false when there is none, else call terminate() on its
\* environment.  Gives the flow and the environments after the call.
callRemoveSession(S, E, t, id) ==
    IF ~MapHas(S, id)
    THEN [t |-> AfterRemoval([t EXCEPT !.sessionId = id, !.session = 0, !.td = "none"],
                             FALSE),
          envs |-> E]
    ELSE [t |-> [t EXCEPT !.pc = "await_terminate", !.sessionId = id,
                          !.session = MapGet(S, id).environment, !.td = "none"],
          envs |-> [E EXCEPT ![MapGet(S, id).environment].terminate = @ + 1]]

RemoveSession(p, id) ==
    LET r == callRemoveSession(sessions, envs, [IdleTask EXCEPT !.op = "remove"], id) IN
    /\ IsFree(p)
    /\ task' = [task EXCEPT ![p] = r.t]
    /\ envs' = Forget(r.envs, sessions, task')
    /\ UNCHANGED <<sessions, cleanupInterval, tickDue, now, shutdownAt>>

\* the flow after a teardown call rejected
TeardownRejected(p, t, what) ==
    LET c == removeSessionCatch(sessions, t.sessionId) IN
    /\ sessions' = c.sessions
    /\ task' = [task EXCEPT ![p] =
           IF c.threw
           THEN AfterThrow([t EXCEPT !.td = what, !.failed = TRUE])
           ELSE AfterRemoval([t EXCEPT !.td = what, !.failed = TRUE], TRUE)]

\* `await session.environment.terminate()` settled: on success cleanup() is
\* called and awaited, on failure control jumps to the catch block
TerminateSettle(p, ok) ==
    LET t == task[p] IN
    /\ t.pc = "await_terminate"
    /\ IF ok
       THEN /\ task' = [task EXCEPT ![p] = [t EXCEPT !.pc = "await_cleanup"]]
            /\ sessions' = sessions
            /\ envs' = [envs EXCEPT ![t.session].cleanup = @ + 1]
       ELSE /\ TeardownRejected(p, t, "terminate_failed")
            /\ envs' = Forget(envs, sessions', task')
    /\ UNCHANGED <<cleanupInterval, tickDue, now, shutdownAt>>

\* `await session.environment.cleanup()` settled
CleanupSettle(p, ok) ==
    LET t == task[p] IN
    /\ t.pc = "await_cleanup"
    /\ IF ok
       THEN /\ sessions' = removeSessionDelete(sessions, t.sessionId)
            /\ task' = [task EXCEPT ![p] = AfterRemoval([t EXCEPT !.td = "ok"], TRUE)]
       ELSE TeardownRejected(p, t, "cleanup_failed")
    /\ envs' = Forget(envs, sessions', task')
    /\ UNCHANGED <<cleanupInterval, tickDue, now, shutdownAt>>

(* ----------------------- cleanupExpiredSessions ----------------------- *)
\* a plausible slip: `>` instead of `>=`
isSessionExpiredStrict(session, t) == t - session.lastAccessedAt > sessionTimeout

isSessionExpired(session, t) == t - session.lastAccessedAt >= sessionTimeout

\* the ids of the expired sessions, in the Map's iteration order
ExpiredSessions(S, t) == MapKeys(SelectSeq(S, LAMBDA s : isSessionExpired(s, t)))

\* history: the sessions whose idle duration has reached the timeout at t
Due(S, t) ==
    {S[n].environment : n \in {m \in 1..Len(S) : t - S[m].lastAccessedAt >= sessionTimeout}}

\* the flow t starts walking t.ids: it returns at once when the list is
\* empty, else calls removeSession on the first id in the same stretch
startWalk(S, E, t) ==
    IF Len(t.ids) = 0
    THEN [t |-> Finished(t, IF t.op = "sweep" THEN CountResult(0) ELSE VoidResult),
          envs |-> E]
    ELSE callRemoveSession(S, E, [t EXCEPT !.k = 1], t.ids[1])

\* cleanupExpiredSessions up to its first await: the scan and the first removal
cleanupExpiredSessions(S, E, t) ==
    startWalk(S, E, [IdleTask EXCEPT !.op = "sweep", !.ids = ExpiredSessions(S, t),
                                     !.scan = Due(S, t)])

ManualCleanup(p) ==
    LET r == cleanupExpiredSessions(sessions, envs, now) IN
    /\ IsFree(p)
    /\ task' = [task EXCEPT ![p] = r.t]
    /\ envs' = Forget(r.envs, sessions, task')
    /\ UNCHANGED <<sessions, cleanupInterval, tickDue, now, shutdownAt>>

\* the setInterval callback
TimerFire(p) ==
    LET r == cleanupExpiredSessions(sessions, envs, now) IN
    /\ cleanupInterval
    /\ tickDue
    /\ IsFree(p)
    /\ tickDue' = FALSE
    /\ task' = [task EXCEPT ![p] = r.t]
    /\ envs' = Forget(r.envs, sessions, task')
    /\ UNCHANGED <<sessions, cleanupInterval, now, shutdownAt>>

\* the next iteration of `for (const sessionId of ...) await removeSession`
LoopNext(p) ==
    LET t == task[p]
        r == callRemoveSession(sessions, envs, t, t.ids[t.k])
    IN
    /\ t.pc = "loop"
    /\ task' = [task EXCEPT ![p] = r.t]
    /\ envs' = Forget(r.envs, sessions, task')
    /\ UNCHANGED <<sessions, cleanupInterval, tickDue, now, shutdownAt>>

(* ----------------------------- shutdown ------------------------------- *)
\* shutdown up to its first await: stopCleanupInterval, the key snapshot and
\* the first removal.  The application shuts the manager down once.
Shutdown(p) ==
    LET r == startWalk(sessions, envs,
                       [IdleTask EXCEPT !.op = "shutdown", !.ids = MapKeys(sessions),
                                        !.scan = Registered(sessions)])
    IN
    /\ IsFree(p)
    /\ shutdownAt = -1
    /\ shutdownAt' = Len(envs)
    /\ cleanupInterval' = FALSE
    /\ tickDue' = FALSE
    /\ task' = [task EXCEPT ![p] = r.t]
    /\ envs' = Forget(r.envs, sessions, task')
    /\ UNCHANGED <<sessions, now>>

(* ------------------------- clock and callers -------------------------- *)
\* a minute passes; an armed timer becomes due, and fires before the next
Advance ==
    /\ now < MaxTime
    /\ ~tickDue
    /\ now' = now + 1
    /\ tickDue' = cleanupInterval
    /\ UNCHANGED <<sessions, cleanupInterval, envs, task, shutdownAt>>

(* --------------------------- observability --------------------------- *)
\* sessions.size
getActiveSessionCount(S) == Len(S)

\* one entry per session, in the order of the Map
getSessionsInfo(S, t) ==
    [n \in 1..Len(S) |->
        [id |-> S[n].id,
         createdAt |-> S[n].createdAt,
         lastAccessedAt |-> S[n].lastAccessedAt,
         ageMinutes |-> (t - S[n].createdAt) \div MinuteUnits,
         idleMinutes |-> (t - S[n].lastAccessedAt) \div MinuteUnits]]

\* GET /health
GetActiveSessionCount(p) ==
    /\ IsFree(p)
    /\ task' = [task EXCEPT ![p] =
           [IdleTask EXCEPT !.op = "count", !.pc = "done",
                            !.result = CountResult(getActiveSessionCount(sessions))]]
    /\ UNCHANGED <<sessions, cleanupInterval, tickDue, now, envs, shutdownAt>>

\* a listing that counts as an access to every session it lists
GetSessionsInfoRefreshes(p) ==
    /\ IsFree(p)
    /\ task' = [task EXCEPT ![p] =
           [IdleTask EXCEPT !.op = "info", !.pc = "done",
                            !.result = InfoResult(getSessionsInfo(sessions, now))]]
    /\ sessions' = [n \in 1..Len(sessions) |->
                        [sessions[n] EXCEPT !.lastAccessedAt = now]]
    /\ UNCHANGED <<cleanupInterval, tickDue, now, envs, shutdownAt>>

\* GET /sessions
GetSessionsInfo(p) ==
    /\ IsFree(p)
    /\ task' = [task EXCEPT ![p] =
           [IdleTask EXCEPT !.op = "info", !.pc = "done",
                            !.result = InfoResult(getSessionsInfo(sessions, now))]]
    /\ UNCHANGED <<sessions, cleanupInterval, tickDue, now, envs, shutdownAt>>

\* the caller has taken the result; the flow is over
Return(p) ==
    /\ task[p].pc = "done"
    /\ task' = [task EXCEPT ![p] = IdleTask]
    /\ envs' = Forget(envs, sessions, task')
    /\ UNCHANGED <<sessions, cleanupInterval, tickDue, now, shutdownAt>>

Next ==
    \/ \E id \in Ids : GetSession(id)
    \/ \E p \in Tasks, id \in Ids : GetOrCreateSession(p, id)
    \/ \E p \in Tasks, ok \in BOOLEAN : InitSettle(p, ok)
    \/ \E p \in Tasks, id \in Ids : RemoveSession(p, id)
    \/ \E p \in Tasks, ok \in BOOLEAN : TerminateSettle(p, ok)
    \/ \E p \in Tasks, ok \in BOOLEAN : CleanupSettle(p, ok)
    \/ \E p \in Tasks : ManualCleanup(p)
    \/ \E p \in Tasks : TimerFire(p)
    \/ \E p \in Tasks : LoopNext(p)
    \/ \E p \in Tasks : Shutdown(p)
    \/ Advance
    \/ \E p \in Tasks : GetActiveSessionCount(p)
    \/ \E p \in Tasks : GetSessionsInfo(p)
    \/ \E p \in Tasks : Return(p)

Spec == Init /\ [][Next]_vars

(* ----------------------- progress assumptions ------------------------- *)
\* the steps of Next that stay within the smaller bound on environments
LiveNext ==
    \/ \E id \in Ids : GetSession(id)
    \/ \E p \in Tasks, id \in Ids :
            GetOrCreateSession(p, id) /\ Len(envs') <= LiveMaxEnvs
    \/ \E p \in Tasks, ok \in BOOLEAN : InitSettle(p, ok)
    \/ \E p \in Tasks, id \in Ids : RemoveSession(p, id)
    \/ \E p \in Tasks, ok \in BOOLEAN : TerminateSettle(p, ok)
    \/ \E p \in Tasks, ok \in BOOLEAN : CleanupSettle(p, ok)
    \/ \E p \in Tasks : ManualCleanup(p)
    \/ \E p \in Tasks : TimerFire(p)
    \/ \E p \in Tasks : LoopNext(p)
    \/ \E p \in Tasks : Shutdown(p)
    \/ Advance
    \/ \E p \in Tasks : GetActiveSessionCount(p)
    \/ \E p \in Tasks : GetSessionsInfo(p)
    \/ \E p \in Tasks : Return(p)

\* Every call on an environment settles, the event loop resumes every
\* continuation, callers take their results, and an armed timer whose period
\* has elapsed fires (its callback needs no request to end first).
Fairness ==
    /\ \A p \in Tasks : WF_vars(\E ok \in BOOLEAN : InitSettle(p, ok))
    /\ \A p \in Tasks : WF_vars(\E ok \in BOOLEAN : TerminateSettle(p, ok))
    /\ \A p \in Tasks : WF_vars(\E ok \in BOOLEAN : CleanupSettle(p, ok))
    /\ \A p \in Tasks : WF_vars(LoopNext(p))
    /\ \A p \in Tasks : WF_vars(Return(p))
    /\ SF_vars(\E p \in Tasks : TimerFire(p))

LiveSpec == Init /\ [][LiveNext]_vars /\ Fairness

(* ============================ properties ============================== *)

\* C1: single-flight creation.  Calls of getOrCreateSession for the same
\* absent id that overlap share one environment construction: any two flows
\* that wait for the creation of the same id wait for the same environment.
C1_SingleFlight ==
    \A p, q \in Tasks :
        (/\ task[p].pc = "await_init"
         /\ task[q].pc = "await_init"
         /\ task[p].sessionId = task[q].sessionId)
        => task[p].session = task[q].session

\* C2: a session leaves the registry when its removal begins: no registered
\* session has an environment on which terminate has been called.
C2_RegisteredNotInTeardown ==
    \A e \in Registered(sessions) : envs[e].terminate = 0

\* C3: when init() fails the caller receives the error and that step inserts
\* nothing into the registry; and a getOrCreateSession for an id that is not
\* registered always constructs a fresh environment and calls its init().
C3_FailedCreation ==
    [][\A p \in Tasks :
          /\ (/\ task[p].pc = "await_init"
              /\ envs'[task[p].session].init = "failed")
             => /\ task'[p].pc = "done"
                /\ task'[p].result = ErrorResult
                /\ sessions' = sessions
          /\ (/\ task[p].pc = "idle"
              /\ task'[p].op = "getOrCreate"
              /\ ~MapHas(sessions, task'[p].sessionId))
             => /\ task'[p].pc = "await_init"
                /\ Len(envs') = Len(envs) + 1
                /\ task'[p].session = Len(envs')
                /\ envs'[Len(envs')] = NewEnv]_vars

\* a caller holds the error of a failed creation and the id is not registered
C3_Witness ==
    \E p \in Tasks :
        /\ task[p].op = "getOrCreate"
        /\ task[p].pc = "done"
        /\ task[p].result = ErrorResult
        /\ envs[task[p].session].init = "failed"
        /\ ~MapHas(sessions, task[p].sessionId)

\* shutdown() has been called and has returned
ShutdownReturned ==
    /\ shutdownAt >= 0
    /\ \A p \in Tasks : task[p].op = "shutdown" => task[p].pc = "done"

\* C4: once shutdown() has returned the timer is stopped and the registry
\* holds no session of an operation that started before shutdown was called
\* (the environments constructed by then are those up to shutdownAt).
C4_ShutdownComplete ==
    ShutdownReturned =>
        /\ ~cleanupInterval
        /\ ~tickDue
        /\ \A e \in Registered(sessions) : e > shutdownAt

\* C5: when a sweep pass has completed, no session whose idle duration had
\* reached the timeout when the pass scanned the registry is registered.
C5_ExpiredRemoved ==
    \A p \in Tasks :
        (task[p].op = "sweep" /\ task[p].pc = "done")
        => task[p].scan \cap Registered(sessions) = {}

\* a completed pass that had a session to remove
C5_Witness ==
    \E p \in Tasks :
        /\ task[p].op = "sweep"
        /\ task[p].pc = "done"
        /\ task[p].scan # {}
        /\ task[p].result.kind = "count"

\* C6: a sweep pass tears down and removes only sessions whose idle duration
\* had reached the timeout when it scanned the registry.
C6_SweepOnlyExpired ==
    \A p \in Tasks :
        (task[p].op = "sweep" /\ task[p].pc \in {"await_terminate", "await_cleanup"})
        => task[p].session \in task[p].scan

\* C7: release is attempted for every removed session: when a removal whose
\* terminate failed is over, cleanup has been called on the environment and
\* the session is gone from the registry.
C7_BothStepsAttempted ==
    \A p \in Tasks :
        task[p].td = "terminate_failed"
        => /\ envs[task[p].session].cleanup > 0
           /\ task[p].session \notin Registered(sessions)

\* C8: a teardown failure is absorbed: the step of removeSession(id) in which
\* terminate or cleanup fails returns true and leaves id out of the registry.
C8_TeardownFailureAbsorbed ==
    [][\A p \in Tasks :
          (/\ task[p].op = "remove"
           /\ task[p].pc \in {"await_terminate", "await_cleanup"}
           /\ task'[p].td \in {"terminate_failed", "cleanup_failed"})
          => /\ task'[p].pc = "done"
             /\ task'[p].result = BoolResult(TRUE)
             /\ ~MapHas(sessions', task[p].sessionId)]_vars

\* a removal whose teardown failed has returned true
C8_Witness ==
    \E p \in Tasks :
        /\ task[p].op = "remove"
        /\ task[p].pc = "done"
        /\ task[p].td \in {"terminate_failed", "cleanup_failed"}
        /\ task[p].result = BoolResult(TRUE)
        /\ ~MapHas(sessions, task[p].sessionId)

\* C9: removeSession(id) for an id that is not registered returns false at
\* once, calls no teardown and leaves the registry as it is.
C9_RemoveAbsent ==
    [][\A p \in Tasks :
          (/\ task[p].pc = "idle"
           /\ task'[p].op = "remove"
           /\ ~MapHas(sessions, task'[p].sessionId))
          => /\ task'[p].pc = "done"
             /\ task'[p].result = BoolResult(FALSE)
             /\ sessions' = sessions
             /\ envs' = envs]_vars

\* a removal of an unregistered id has returned false, after an earlier
\* removal has torn a session down
C9_Witness ==
    \E p \in Tasks :
        /\ task[p].op = "remove"
        /\ task[p].pc = "done"
        /\ task[p].result = BoolResult(FALSE)
        /\ \E e \in 1..Len(envs) : envs[e] = Forgotten

\* C10: a teardown failure inside a sweep pass does not stop the pass: a pass
\* in which a teardown failed still returns its count, and none of the
\* sessions it was due to remove is registered.
C10_SweepFailureIsolated ==
    \A p \in Tasks :
        (task[p].op = "sweep" /\ task[p].pc = "done" /\ task[p].failed)
        => /\ task[p].result.kind = "count"
           /\ task[p].scan \cap Registered(sessions) = {}

\* a completed pass over two sessions in which a teardown failed
C10_Witness ==
    \E p \in Tasks :
        /\ task[p].op = "sweep"
        /\ task[p].pc = "done"
        /\ task[p].failed
        /\ Cardinality(task[p].scan) >= 2
        /\ task[p].result = CountResult(2)

\* C11: the value a sweep pass returns is the number of sessions the pass
\* itself removed: the number of its removeSession calls that returned true.
C11_CountIsRemoved ==
    \A p \in Tasks :
        (task[p].op = "sweep" /\ task[p].pc = "done" /\ task[p].result.kind = "count")
        => task[p].result.val = task[p].removed

\* the session of environment e is registered and its idle duration has
\* reached the timeout
RegisteredIdle(e) ==
    \E n \in 1..Len(sessions) :
        /\ sessions[n].environment = e
        /\ now - sessions[n].lastAccessedAt >= sessionTimeout

\* C12: eventual expiry.  While the timer is armed, a session whose idle
\* duration has reached the timeout when a tick is due is eventually out of
\* the registry, unless it is accessed again.
C12_EventualExpiry ==
    \A e \in 1..LiveMaxEnvs :
        (RegisteredIdle(e) /\ cleanupInterval /\ tickDue) ~> ~RegisteredIdle(e)

\* the tick of this minute has fired and a completed pass has removed the
\* sessions that were due
C12_Witness ==
    \E p \in Tasks :
        /\ task[p].op = "sweep"
        /\ task[p].pc = "done"
        /\ task[p].scan # {}
        /\ task[p].scan \cap Registered(sessions) = {}
        /\ cleanupInterval
        /\ ~tickDue
        /\ now = MaxTime

\* C13: shutdown() always completes: once called it returns, and it returns
\* without an error whatever the teardown calls did.
C13_ShutdownCompletes ==
    /\ (shutdownAt >= 0) ~> ShutdownReturned
    /\ [](\A p \in Tasks :
            (task[p].op = "shutdown" /\ task[p].pc = "done")
            => task[p].result = VoidResult)

\* shutdown() has returned after a teardown of each of two sessions failed
C13_Witness ==
    \E p \in Tasks :
        /\ task[p].op = "shutdown"
        /\ task[p].pc = "done"
        /\ task[p].result = VoidResult
        /\ task[p].failed
        /\ task[p].removed = 2

\* C14: shutdown() tears down every session: when shutdown() has returned,
\* terminate and cleanup have both been called on the environment of every
\* session that was registered when shutdown() was called.
C14_ShutdownTearsDownAll ==
    \A p \in Tasks :
        (task[p].op = "shutdown" /\ task[p].pc = "done")
        => \A e \in task[p].scan :
               envs[e].terminate > 0 /\ envs[e].cleanup > 0

\* C15: monotonic access time: in every step, a session that stays in the
\* registry keeps its createdAt and its lastAccessedAt does not decrease; and
\* no session is accessed before it is created.
C15_MonotonicAccess ==
    [][/\ \A n \in 1..Len(sessions) : \A m \in 1..Len(sessions') :
             sessions'[m].environment = sessions[n].environment
             => /\ sessions'[m].createdAt = sessions[n].createdAt
                /\ sessions'[m].lastAccessedAt >= sessions[n].lastAccessedAt
       /\ \A m \in 1..Len(sessions') :
             sessions'[m].lastAccessedAt >= sessions'[m].createdAt]_vars

\* a registered session has been accessed at a later time than its creation
C15_Witness ==
    \E n \in 1..Len(sessions) : sessions[n].lastAccessedAt > sessions[n].createdAt

\* C16: hit path of getOrCreateSession: a getOrCreateSession(id) that starts
\* while id is registered returns at once the registered session, whose
\* lastAccessedAt becomes now and whose other fields stay; it constructs no
\* environment and leaves every other entry and the set of keys unchanged.
C16_HitPath ==
    [][\A p \in Tasks : \A id \in Ids :
          (/\ task[p].pc = "idle"
           /\ task'[p].op = "getOrCreate"
           /\ task'[p].sessionId = id
           /\ MapHas(sessions, id))
          => /\ task'[p].pc = "done"
             /\ task'[p].result = SessionResult(MapGet(sessions, id).environment)
             /\ MapKeys(sessions') = MapKeys(sessions)
             /\ MapGet(sessions', id) =
                    [MapGet(sessions, id) EXCEPT !.lastAccessedAt = now]
             /\ \A n \in 1..Len(sessions) :
                    sessions[n].id # id => sessions'[n] = sessions[n]
             /\ envs' = envs]_vars

\* two getOrCreateSession calls have returned the same registered session (one
\* of them at least found it registered), refreshed after its creation
C16_Witness ==
    \E n \in 1..Len(sessions) :
        /\ \A p \in Tasks :
              /\ task[p].op = "getOrCreate"
              /\ task[p].pc = "done"
              /\ task[p].result = SessionResult(sessions[n].environment)
        /\ sessions[n].lastAccessedAt = now
        /\ sessions[n].createdAt < now

\* C17: an insert never replaces an entry: in every step, an id registered
\* before and after the step maps to the same session object.
C17_InsertNeverReplaces ==
    [][\A id \in Ids :
          (MapHas(sessions, id) /\ MapHas(sessions', id))
          => MapGet(sessions', id).environment = MapGet(sessions, id).environment]_vars

\* C18: observability reads do not keep sessions alive: a getSessionsInfo or
\* getActiveSessionCount call leaves the registry as it is, timestamps
\* included, so the sessions a sweep would select are the same after it.
C18_ReadsDoNotRefresh ==
    [][\A p \in Tasks :
          (task[p].pc = "idle" /\ task'[p].op \in {"count", "info"})
          => /\ sessions' = sessions
             /\ ExpiredSessions(sessions', now') = ExpiredSessions(sessions, now)
             /\ envs' = envs
             /\ task'[p].op = "count"
                    => task'[p].result = CountResult(Len(sessions'))]_vars

\* a listing has reported a session idle for the timeout or longer, and a
\* sweep would still select that session
C18_Witness ==
    \E p \in Tasks :
        /\ task[p].op = "info"
        /\ task[p].pc = "done"
        /\ \E n \in 1..Len(task[p].result.val) :
              /\ task[p].result.val[n].idleMinutes >= sessionTimeoutMinutes
              /\ MapHas(sessions, task[p].result.val[n].id)
              /\ MapGet(sessions, task[p].result.val[n].id).lastAccessedAt =
                     task[p].result.val[n].lastAccessedAt
        /\ ExpiredSessions(sessions, now) # <<>>

\* C19: no leaked environment: every environment whose init() has succeeded
\* is the environment of a registered session or has had terminate() called.
C19_NoLeakedEnvironment ==
    \A e \in 1..Len(envs) :
        envs[e].init = "ok" => (e \in Registered(sessions) \/ envs[e].terminate > 0)

\* C20: teardown happens at most once per session: terminate() is called at
\* most once on an environment.
C20_TeardownAtMostOnce ==
    \A e \in 1..Len(envs) : envs[e].terminate <= 1

====
